---- MODULE Spec2Model ----
(***************************************************************************)
(* A model of the network engine of src/services/neuralNet.ts              *)
(* (class MiniNeuralNet): forward propagation, backpropagation with        *)
(* per-sample gradients, mini-batch accumulation and the averaged update.  *)
(*                                                                         *)
(* Numbers.  The code computes in IEEE doubles.  Here a number is an       *)
(* integer count of 1/Scale units (fixed point); a product is rounded to   *)
(* the nearest unit, as a double product is rounded to the nearest double. *)
(* Math.exp and Math.tanh are tabulated at that resolution.  Arrays are    *)
(* 1-based sequences: the code's weights[i][j][k] is weights[i+1][j+1][k+1]*)
(* here, layer l of the code is layer l+1.                                 *)
(***************************************************************************)
EXTENDS Integers, Sequences, FiniteSets, TLC

VARIABLES
    layers,              \* this.layers
    weights,             \* this.weights            [layer][from][to]
    biases,              \* this.biases             [layer][neuron]
    activations,         \* this.activations        [layer][neuron]  (a)
    preActivations,      \* this.preActivations     [layer][neuron]  (z)
    neuronGradients,     \* this.neuronGradients    [layer][neuron]  (delta)
    weightGradients,     \* this.weightGradients    [layer][from][to]
    learningRate,        \* this.learningRate
    batchSize,           \* this.batchSize
    currentBatchCount,   \* this.currentBatchCount
    accWeightGradients,  \* this.accWeightGradients
    accBiasGradients,    \* this.accBiasGradients
    lastOp,              \* the call that produced this state and its arguments
    ret,                 \* what that call returned
    calls,               \* number of calls made on this instance
    sinceReset,          \* history: the parameters at, and the per-sample gradients
                         \* of the train calls made since, the last parameter
                         \* update or batch-size change (or construction)
    lastBatch,           \* history: the same for the batch completed last
    run,                 \* history: the current run of consecutive train calls
                         \* that started with the batch counter at 0
    forwarded,           \* history: the forward calls made since the last
                         \* parameter update, each with its input, the value it
                         \* returned, the forward state it left and whether a
                         \* train call followed it
    dataset,             \* the last call of generateData: its arguments and
                         \* the points it returned
    app                  \* the state of the application that drives the engine
                         \* (src/App.tsx): config, playback, statistics, step
                         \* index; the engine above is nnRef.current

engine == <<layers, weights, biases, activations, preActivations,
            neuronGradients, weightGradients, learningRate, batchSize,
            currentBatchCount, accWeightGradients, accBiasGradients>>

vars == <<layers, weights, biases, activations, preActivations,
          neuronGradients, weightGradients, learningRate, batchSize,
          currentBatchCount, accWeightGradients, accBiasGradients,
          lastOp, ret, calls, sinceReset, lastBatch, run, forwarded, dataset, app>>

----------------------------------------------------------------------------
(* Bounds of the model *)

MaxCalls == 4

MaxBatch == 3

MaxCount == 9

NumSeeds == 1

----------------------------------------------------------------------------
(* Fixed-point numbers *)

Scale == 16

\* An array with its elements computed once.  (TLC evaluates a function
\* constructor lazily, anew on every access; merging with the empty array yields
\* the same array, evaluated.)
Array(f) == f @@ <<>>

Abs(x) == IF x < 0 THEN -x ELSE x

Sgn(x) == IF x < 0 THEN -1 ELSE 1

\* x / y rounded to the nearest integer, halves away from zero (y > 0)
RoundDiv(x, y) == Sgn(x) * ((2 * Abs(x) + y) \div (2 * y))

\* a * b
Mul(a, b) == RoundDiv(a * b, Scale)

\* 1 / n for a plain count n other than 0
Recip(n) == IF n < 0 THEN -RoundDiv(Scale, -n) ELSE RoundDiv(Scale, n)

\* the arguments at which Scale * sigmoid(x / Scale), rounded, steps up by one
SigmoidSteps == {3, 7, 11, 16, 21, 27, 37, 55}

\* the arguments at which Scale * tanh(x / Scale), rounded, steps up by one
TanhSteps == {1, 2, 3, 4, 5, 6, 7, 9, 10, 11, 13, 15, 17, 20, 25, 34}

sigmoid(x) ==
    LET up == Scale \div 2 + Cardinality({t \in SigmoidSteps : t <= Abs(x)})
    IN  IF x >= 0 THEN up ELSE Scale - up

sigmoidDerivative(x) == Mul(x, Scale - x)

relu(x) == IF x > 0 THEN x ELSE 0

reluDerivative(x) == IF x > 0 THEN Scale ELSE 0

tanh(x) == Sgn(x) * Cardinality({t \in TanhSteps : t <= Abs(x)})

tanhDerivative(x) == Scale - Mul(x, x)

ActivationType == {"SIGMOID", "RELU", "TANH"}

\* forward: the switch on layerConfig.activation
Activate(kind, sum) ==
    CASE kind = "SIGMOID" -> sigmoid(sum)
      [] kind = "RELU"    -> relu(sum)
      [] kind = "TANH"    -> tanh(sum)
      [] OTHER            -> 0

\* Faulty variant: the Sigmoid and Tanh derivatives are taken at the
\* pre-activation
ActivationPrimeOfPreActivation(kind, z, a) ==
    CASE kind = "SIGMOID" -> sigmoidDerivative(z)
      [] kind = "RELU"    -> reluDerivative(z)
      [] kind = "TANH"    -> tanhDerivative(z)
      [] OTHER            -> 0

\* train: the switch on the layer's activation; z is the pre-activation and a
\* the activation of the neuron
ActivationPrime(kind, z, a) ==
    CASE kind = "SIGMOID" -> sigmoidDerivative(a)
      [] kind = "RELU"    -> reluDerivative(z)
      [] kind = "TANH"    -> tanhDerivative(a)
      [] OTHER            -> 0

----------------------------------------------------------------------------
(* Shapes *)

Layer(n, kind) == [neurons |-> n, activation |-> kind]

Zeros(n) == Array([k \in 1..n |-> 0])

\* this.weights.map(l => l.map(n => new Array(n.length).fill(0)))
ZeroLikeWeights(w) ==
    Array([i \in 1..Len(w) |-> Array([j \in 1..Len(w[i]) |-> Zeros(Len(w[i][j]))])])

\* this.biases.map(l => new Array(l.length).fill(0))
ZeroLikeBiases(b) == Array([i \in 1..Len(b) |-> Zeros(Len(b[i]))])

\* resetAccumulators(): the fresh accumulators and counter
ResetAccumulators(w, b) ==
    [accW |-> ZeroLikeWeights(w), accB |-> ZeroLikeBiases(b), count |-> 0]

----------------------------------------------------------------------------
(* forward *)

RECURSIVE Sum(_, _)
\* f[1] + ... + f[n], added in index order
Sum(f, n) == IF n = 0 THEN 0 ELSE Sum(f, n - 1) + f[n]

\* Faulty variant: the sum starts from the neuron's stored pre-activation
\* when a forward pass has left one
WeightedSumFromStoredSum(w, b, cur, i, j) ==
    (IF i + 1 <= Len(preActivations) THEN preActivations[i + 1][j] ELSE b[i][j])
    + Sum(Array([k \in 1..Len(cur) |-> Mul(cur[k], w[i][k][j])]), Len(cur))

\* z of neuron j of the layer fed by weight layer i: the bias plus the
\* products over currentActivations
WeightedSum(w, b, cur, i, j) ==
    b[i][j] + Sum(Array([k \in 1..Len(cur) |-> Mul(cur[k], w[i][k][j])]), Len(cur))

RECURSIVE ForwardFrom(_, _, _, _, _, _)
\* the loop over this.weights, from weight layer i on; acts and pres are
\* this.activations and this.preActivations as built so far
ForwardFrom(w, b, ls, acts, pres, i) ==
    IF i > Len(w) THEN [a |-> acts, z |-> pres]
    ELSE LET cur   == acts[i]
             n     == ls[i + 1].neurons
             nextZ == Array([j \in 1..n |-> WeightedSum(w, b, cur, i, j)])
             nextA == Array([j \in 1..n |-> Activate(ls[i + 1].activation, nextZ[j])])
         IN  ForwardFrom(w, b, ls, Append(acts, nextA), Append(pres, nextZ), i + 1)

\* forward(inputs): the new forward state; the value returned is the last
\* entry of a
ForwardPass(w, b, ls, inputs) == ForwardFrom(w, b, ls, <<inputs>>, <<inputs>>, 1)

Last(s) == s[Len(s)]

----------------------------------------------------------------------------
(* train *)

\* step 2: the error term of output neuron i
OutputDelta(kind, output, target, z) ==
    Mul(output - target, ActivationPrime(kind, z, output))

\* Faulty variant: the weight gradient lacks the source activation
WeightGradientWithoutActivation(deltaNext, aPrev) == deltaNext

\* dE/dw = delta_next * a_prev
WeightGradient(deltaNext, aPrev) == Mul(deltaNext, aPrev)

\* this.weightGradients[i][j][k] = gradient
StoreWeightGradient(old, gradient) == gradient

\* Faulty variant: the accumulator is overwritten by the sample's gradient
AccumulateOverwrites(acc, gradient) == gradient

\* this.accWeightGradients[i][j][k] += gradient, this.accBiasGradients[i][k] += delta
Accumulate(acc, gradient) == acc + gradient

\* Faulty variant: the weights of a completing batch are updated inside the
\* loop, before the deltas of the layer below are computed from them
HiddenDeltaAfterUpdate(w, ls, acts, pres, nextG, i, j) ==
    LET n        == ls[i + 1].neurons
        used(k)  == IF currentBatchCount + 1 >= batchSize
                    THEN w[i][j][k]
                           - Mul(learningRate,
                                 Mul(accWeightGradients[i][j][k]
                                        + Mul(nextG[k], acts[i][j]),
                                     Recip(batchSize)))
                    ELSE w[i][j][k]
        errorSum == Sum(Array([k \in 1..n |-> Mul(nextG[k], used(k))]), n)
    IN  Mul(errorSum, ActivationPrime(ls[i].activation, pres[i][j], acts[i][j]))

\* step 3, the delta of neuron j of layer i (i > 1) from the deltas of layer i+1
HiddenDelta(w, ls, acts, pres, nextG, i, j) ==
    LET n        == ls[i + 1].neurons
        errorSum == Sum(Array([k \in 1..n |-> Mul(nextG[k], w[i][j][k])]), n)
    IN  Mul(errorSum, ActivationPrime(ls[i].activation, pres[i][j], acts[i][j]))

\* Faulty variant: the delta loop also runs for the input layer
PropagatesIntoInputLayer(i) == i >= 1

\* if (i > 0): the layer below weight layer i receives deltas
PropagatesInto(i) == i > 1

RECURSIVE Backprop(_, _, _, _, _, _, _)
\* step 3: the loop from weight layer i down to 1; st holds neuronGradients,
\* weightGradients and the two accumulators as written so far
Backprop(w, b, ls, acts, pres, st, i) ==
    IF i < 1 THEN st
    ELSE LET prevA == acts[i]
             nextG == st.ng[i + 1]
             grad  == Array([j \in 1..Len(w[i]) |-> Array(
                         [k \in 1..Len(w[i][j]) |-> WeightGradient(nextG[k], prevA[j])])])
             wgi   == Array([j \in 1..Len(w[i]) |-> Array(
                         [k \in 1..Len(w[i][j]) |->
                            StoreWeightGradient(st.wg[i][j][k], grad[j][k])])])
             awi   == Array([j \in 1..Len(w[i]) |-> Array(
                         [k \in 1..Len(w[i][j]) |-> Accumulate(st.accW[i][j][k], grad[j][k])])])
             abi   == Array([k \in 1..Len(b[i]) |-> Accumulate(st.accB[i][k], nextG[k])])
             ngi   == IF PropagatesInto(i)
                      THEN Array([j \in 1..ls[i].neurons |->
                              HiddenDelta(w, ls, acts, pres, nextG, i, j)])
                      ELSE st.ng[i]
         IN  Backprop(w, b, ls, acts, pres,
                      [ng   |-> [st.ng   EXCEPT ![i] = ngi],
                       wg   |-> [st.wg   EXCEPT ![i] = wgi],
                       accW |-> [st.accW EXCEPT ![i] = awi],
                       accB |-> [st.accB EXCEPT ![i] = abi]],
                      i - 1)

\* the per-sample gradient structures train starts from
FreshNeuronGradients(ls, old) == Array([l \in 1..Len(ls) |-> Zeros(ls[l].neurons)])

FreshWeightGradients(w, old) == ZeroLikeWeights(w)

\* Faulty variant: the batch completes one sample late
BatchCompleteLate(count, size) == count > size

\* Faulty variant: every sample completes a batch
BatchCompleteAlways(count, size) == count >= 1

\* step 4: if (this.currentBatchCount >= this.batchSize)
BatchComplete(count, size) == count >= size

\* Faulty variant: the accumulated sum is applied without averaging
UpdatedWithoutAveraging(p, acc, lr, size) == p - Mul(lr, acc)

\* parameter -= learningRate * (accumulated * (1 / batchSize))
Updated(p, acc, lr, size) == p - Mul(lr, Mul(acc, Recip(size)))

UpdatedWeights(w, accW, lr, size) ==
    Array([i \in 1..Len(w) |-> Array([j \in 1..Len(w[i]) |->
        Array([k \in 1..Len(w[i][j]) |->
            Updated(w[i][j][k], accW[i][j][k], lr, size)])])])

UpdatedBiases(b, accB, lr, size) ==
    Array([i \in 1..Len(b) |-> Array([k \in 1..Len(b[i]) |->
        Updated(b[i][k], accB[i][k], lr, size)])])

\* steps 1-2: the gradient structures after the output-error loop, for the
\* forward state fwd
OutputStage(ls, fwd, targets, oldNG, oldWG, accW, accB, w) ==
    LET outputs == Last(fwd.a)
        top     == Len(ls)
        ng0     == FreshNeuronGradients(ls, oldNG)
    IN  [ng   |-> [ng0 EXCEPT ![top] =
                      Array([i \in 1..Len(outputs) |->
                         OutputDelta(ls[top].activation, outputs[i],
                                     targets[i], fwd.z[top][i])])],
         wg   |-> FreshWeightGradients(w, oldWG),
         accW |-> accW,
         accB |-> accB]

\* step 4: this.currentBatchCount++ and the check of the batch; the
\* parameters, accumulators and counter it leaves
BatchStep(w, b, accW, accB, count, lr, size) ==
    IF BatchComplete(count + 1, size)
    THEN LET newW == UpdatedWeights(w, accW, lr, size)
             newB == UpdatedBiases(b, accB, lr, size)
             rs   == ResetAccumulators(newW, newB)
         IN  [weights |-> newW, biases |-> newB,
              accW |-> rs.accW, accB |-> rs.accB, count |-> rs.count,
              applied |-> TRUE]
    ELSE [weights |-> w, biases |-> b,
          accW |-> accW, accB |-> accB, count |-> count + 1,
          applied |-> FALSE]

\* Faulty variant: the prediction is recomputed with the updated parameters
TrainReturnAfterUpdate(fwd, up, inputs) ==
    Last(ForwardPass(up.weights, up.biases, layers, inputs).a)

\* return outputs
TrainReturn(fwd, up, inputs) == Last(fwd.a)

----------------------------------------------------------------------------
(* getVisualizationData *)

layerSpacing == 6

neuronSpacing == 2

\* `l${i}-n${j}` with the code's 0-based indices
NeuronId(l, n) == "l" \o ToString(l - 1) \o "-n" \o ToString(n - 1)

\* `c-l${i}n${j}-l${targetLayerIdx}n${k}`
ConnectionId(i, j, k) ==
    "c-l" \o ToString(i - 1) \o "n" \o ToString(j - 1)
          \o "-l" \o ToString(i) \o "n" \o ToString(k - 1)

\* [x, y, 0] of neuron n of layer l
Position(ls, l, n) ==
    <<((2 * (l - 1) - (Len(ls) - 1)) * layerSpacing * Scale) \div 2,
      ((2 * (n - 1) - (ls[l].neurons - 1)) * neuronSpacing * Scale) \div 2,
      0>>

\* the record pushed for neuron n of layer l
NeuronRecord(l, n) ==
    [id            |-> NeuronId(l, n),
     layerIndex    |-> l - 1,
     neuronIndex   |-> n - 1,
     activation    |-> IF l <= Len(activations) THEN activations[l][n] ELSE 0,
     preActivation |-> IF l <= Len(preActivations) THEN preActivations[l][n] ELSE 0,
     bias          |-> IF l > 1 THEN biases[l - 1][n] ELSE 0,
     gradient      |-> IF l <= Len(neuronGradients) THEN neuronGradients[l][n] ELSE 0,
     position      |-> Position(layers, l, n)]

\* Faulty variant: the connection shows the gradient accumulated over the batch
ConnectionRecordOfAccumulator(i, j, k) ==
    [id        |-> ConnectionId(i, j, k),
     sourceId  |-> NeuronId(i, j),
     targetId  |-> NeuronId(i + 1, k),
     weight    |-> weights[i][j][k],
     gradient  |-> accWeightGradients[i][j][k],
     sourcePos |-> Position(layers, i, j),
     targetPos |-> Position(layers, i + 1, k)]

\* the record pushed for the connection from neuron j of layer i to neuron k
\* of layer i+1
ConnectionRecord(i, j, k) ==
    [id        |-> ConnectionId(i, j, k),
     sourceId  |-> NeuronId(i, j),
     targetId  |-> NeuronId(i + 1, k),
     weight    |-> weights[i][j][k],
     gradient  |-> IF i <= Len(weightGradients) THEN weightGradients[i][j][k] ELSE 0,
     sourcePos |-> Position(layers, i, j),
     targetPos |-> Position(layers, i + 1, k)]

RECURSIVE Flatten(_)
\* the concatenation of a sequence of sequences
Flatten(ss) == IF ss = <<>> THEN <<>> ELSE Head(ss) \o Flatten(Tail(ss))

\* getVisualizationData(): { neurons, connections }, in push order
VisualizationData ==
    [neurons     |-> Flatten([l \in 1..Len(layers) |->
                        [n \in 1..layers[l].neurons |-> NeuronRecord(l, n)]]),
     connections |-> Flatten([i \in 1..Len(weights) |->
                        Flatten([j \in 1..layers[i].neurons |->
                           [k \in 1..layers[i + 1].neurons |->
                              ConnectionRecord(i, j, k)]])])]

----------------------------------------------------------------------------
(* generateData *)

\* the resolution the model keeps of the coordinates and targets of data
\* points: a number is an integer count of 1/DataScale units, so that the
\* decimal literals of the code are exact
DataScale == 10000

\* the decimal literal n/10
Tenths(n) == (n * DataScale) \div 10

\* a product of two numbers of that resolution, rounded to the nearest unit
DataMul(a, b) == RoundDiv(a * b, DataScale)

\* { inputs: [x, y], target: [t] }
DataPoint(x, y, t) == [inputs |-> <<x, y>>, target |-> <<t>>]

\* c ? 1 : 0
Label(c) == IF c THEN DataScale ELSE 0

\* count: number = 8
DefaultCount == 8

\* the bound of both loops, i < 8, and the divisor of the angle, i / 8
LoopBound == 8

\* Faulty variant: the far corner is labelled 1
XorPointsAsOr ==
    << DataPoint(Tenths(1), Tenths(1), 0), DataPoint(Tenths(9), Tenths(1), DataScale),
       DataPoint(Tenths(1), Tenths(9), DataScale), DataPoint(Tenths(9), Tenths(9), DataScale),
       DataPoint(Tenths(2), Tenths(2), 0), DataPoint(Tenths(8), Tenths(2), DataScale),
       DataPoint(Tenths(2), Tenths(8), DataScale), DataPoint(Tenths(8), Tenths(8), DataScale) >>

\* the eight pushes of the XOR branch
XorPoints ==
    << DataPoint(Tenths(1), Tenths(1), 0), DataPoint(Tenths(9), Tenths(1), DataScale),
       DataPoint(Tenths(1), Tenths(9), DataScale), DataPoint(Tenths(9), Tenths(9), 0),
       DataPoint(Tenths(2), Tenths(2), 0), DataPoint(Tenths(8), Tenths(2), DataScale),
       DataPoint(Tenths(2), Tenths(8), DataScale), DataPoint(Tenths(8), Tenths(8), 0) >>

\* the values Math.random() takes in the model: 0, 0.25, 0.5 and 0.9975, of [0, 1)
DrawValues == <<0, 2500, 5000, 9975>>

\* the random source of one call is fixed by its seed; over the seeds the two
\* draws of a point take every pair of values
DataSeeds == 0..(Len(DrawValues) * Len(DrawValues) - 1)

\* the first Math.random() of iteration i
DrawX(seed, i) == DrawValues[(((seed % Len(DrawValues)) + i) % Len(DrawValues)) + 1]

\* the second Math.random() of iteration i
DrawY(seed, i) == DrawValues[(((seed \div Len(DrawValues)) + 2 * i) % Len(DrawValues)) + 1]

\* Faulty variant: the label is taken from y
QuadrantPointLabelledByY(seed, i) ==
    LET x == (IF i % 2 = 0 THEN -1 ELSE 1)
                 * (Tenths(5) + DataMul(DrawX(seed, i), Tenths(4)))
        y == DrawY(seed, i) * 2 - DataScale
    IN  DataPoint(x, y, Label(y > 0))

\* iteration i of the QUADRANTS loop
QuadrantPoint(seed, i) ==
    LET x == (IF i % 2 = 0 THEN -1 ELSE 1)
                 * (Tenths(5) + DataMul(DrawX(seed, i), Tenths(4)))
        y == DrawY(seed, i) * 2 - DataScale
    IN  DataPoint(x, y, Label(x > 0))

\* Math.cos((i / 8) * Math.PI * 2) for i = 0..7
CosEighth == <<10000, 7071, 0, -7071, -10000, -7071, 0, 7071>>

\* Math.sin((i / 8) * Math.PI * 2) for i = 0..7
SinEighth == <<0, 7071, 10000, 7071, 0, -7071, -10000, -7071>>

\* Faulty variant: the outer ring is labelled 1
CirclePointLabelsOuterRing(i) ==
    LET r == IF i % 2 = 0 THEN Tenths(3) ELSE Tenths(9)
    IN  DataPoint(DataMul(CosEighth[i + 1], r), DataMul(SinEighth[i + 1], r),
                  Label(r > Tenths(5)))

\* iteration i of the loop of the last branch (Circle)
CirclePoint(i) ==
    LET r == IF i % 2 = 0 THEN Tenths(3) ELSE Tenths(9)
    IN  DataPoint(DataMul(CosEighth[i + 1], r), DataMul(SinEighth[i + 1], r),
                  Label(r < Tenths(5)))

\* enum DatasetType
DatasetType == {"XOR", "CIRCLE", "QUADRANTS"}

\* the selectors generateData is called with: the three of the enum and one
\* that is none of them
Selectors == DatasetType \cup {"SPIRAL"}

\* the counts generateData is called with
Counts == 1..MaxCount

\* generateData(type, count): the array returned; the function has no throw
\* statement and no branch reads count
GenerateData(type, count, seed) ==
    [kind   |-> type,
     count  |-> count,
     points |-> IF type = "XOR" THEN XorPoints
                ELSE IF type = "QUADRANTS"
                     THEN Array([n \in 1..LoopBound |-> QuadrantPoint(seed, n - 1)])
                     ELSE Array([n \in 1..LoopBound |-> CirclePoint(n - 1)]),
     threw  |-> FALSE,
     given  |-> TRUE]

----------------------------------------------------------------------------
(* Construction *)

\* the layer lists engines are built from: two inputs and one output, as the
\* data points have
Topologies ==
    { <<Layer(2, "RELU"), Layer(2, "TANH"), Layer(1, "SIGMOID")>>,
      <<Layer(2, "SIGMOID"), Layer(1, "SIGMOID"), Layer(1, "RELU")>>,
      <<Layer(2, "TANH"), Layer(1, "TANH")>>,
      <<Layer(2, "TANH"), Layer(2, "RELU"), Layer(1, "TANH")>> }

Seeds == 1..NumSeeds

\* Math.random() * 2 - 1: a value of [-1, 1), fixed by the seed
RandomWeight(seed, i, j, k) == ((7 * seed + 5 * i + 11 * j + 13 * k) % (2 * Scale)) - Scale

\* Math.random() - 0.5: a value of [-0.5, 0.5), fixed by the seed
RandomBias(seed, i, k) == ((3 * seed + 7 * i + 5 * k) % Scale) - Scale \div 2

\* initializeWeights(): this.weights
InitialWeights(ls, seed) ==
    Array([i \in 1..Len(ls) - 1 |-> Array([j \in 1..ls[i].neurons |->
        Array([k \in 1..ls[i + 1].neurons |-> RandomWeight(seed, i, j, k)])])])

\* Faulty variant: a bias vector gets one entry per neuron of the source layer
InitialBiasesOfSourceLayer(ls, seed) ==
    Array([i \in 1..Len(ls) - 1 |->
        Array([k \in 1..ls[i].neurons |-> RandomBias(seed, i, k)])])

\* initializeWeights(): this.biases
InitialBiases(ls, seed) ==
    Array([i \in 1..Len(ls) - 1 |->
        Array([k \in 1..ls[i + 1].neurons |-> RandomBias(seed, i, k)])])

\* the learning rates passed to the engine: 0.25 and 0.5
LearningRates == {Scale \div 4, Scale \div 2}

\* the batch sizes passed to the engine
BatchSizes == 1..MaxBatch

\* the data points passed to the engine: (0.1, 0.1) -> [0] and (0.9, 0.1) -> [1]
\* at the model's resolution
Samples == { [inputs |-> <<2, 2>>, target |-> <<0>>],
             [inputs |-> <<14, 2>>, target |-> <<Scale>>] }

NoRun == [valid |-> FALSE, w0 |-> <<>>, b0 |-> <<>>, grads |-> <<>>]

\* the history of a batch that starts now, with parameters w and b, after
\* `discarded` accumulated samples were dropped
NewBatch(w, b, discarded) ==
    [w0 |-> w, b0 |-> b, grads |-> <<>>, discarded |-> discarded]

\* the engine is driven by direct calls, not by the application
NoApp == [mounted |-> FALSE]

\* no call of generateData was made yet
NoData == [kind |-> "", count |-> 0, points |-> <<>>, threw |-> FALSE, given |-> FALSE]

\* a forward call as the history keeps it; `trained` tells that a train call
\* was made after it
ForwardRecord(inputs, fwd) ==
    [inputs |-> inputs, out |-> Last(fwd.a), a |-> fwd.a, z |-> fwd.z,
     trained |-> FALSE]

Op(name, inputs, targets, lr, size) ==
    [name |-> name, inputs |-> inputs, targets |-> targets,
     learningRate |-> lr, batchSize |-> size]

\* new MiniNeuralNet(ls, lr, size)
Construct(ls, lr, size, seed) ==
    LET w  == InitialWeights(ls, seed)
        b  == InitialBiases(ls, seed)
        rs == ResetAccumulators(w, b)
    IN  /\ layers = ls
        /\ learningRate = lr
        /\ batchSize = size
        /\ weights = w
        /\ biases = b
        /\ activations = <<>>
        /\ preActivations = <<>>
        /\ neuronGradients = Array([l \in 1..Len(ls) |-> Zeros(ls[l].neurons)])
        /\ weightGradients = ZeroLikeWeights(w)
        /\ accWeightGradients = rs.accW
        /\ accBiasGradients = rs.accB
        /\ currentBatchCount = rs.count
        /\ lastOp = Op("construct", <<>>, <<>>, lr, size)
        /\ ret = <<>>
        /\ calls = 0
        /\ sinceReset = NewBatch(w, b, 0)
        /\ lastBatch = NewBatch(w, b, 0)
        /\ run = NoRun
        /\ forwarded = {}
        /\ dataset = NoData
        /\ app = NoApp

Init ==
    \E ls \in Topologies, lr \in LearningRates, size \in BatchSizes, seed \in Seeds :
        Construct(ls, lr, size, seed)

----------------------------------------------------------------------------
(* The public operations *)

\* Faulty variant: forward also clears the per-sample gradients
ForwardClearsGradients(inputs) ==
    \E fwd \in {ForwardPass(weights, biases, layers, inputs)} :
        /\ calls < MaxCalls
        /\ activations' = fwd.a
        /\ preActivations' = fwd.z
        /\ neuronGradients' = FreshNeuronGradients(layers, neuronGradients)
        /\ weightGradients' = FreshWeightGradients(weights, weightGradients)
        /\ ret' = Last(fwd.a)
        /\ lastOp' = Op("forward", inputs, <<>>, 0, 0)
        /\ calls' = calls + 1
        /\ run' = NoRun
        /\ forwarded' = forwarded \cup {ForwardRecord(inputs, fwd)}
        /\ UNCHANGED <<layers, weights, biases,
                       learningRate, batchSize, currentBatchCount,
                       accWeightGradients, accBiasGradients, sinceReset, lastBatch,
                       dataset, app>>

\* forward(inputs)
Forward(inputs) ==
    \E fwd \in {ForwardPass(weights, biases, layers, inputs)} :
        /\ calls < MaxCalls
        /\ activations' = fwd.a
        /\ preActivations' = fwd.z
        /\ ret' = Last(fwd.a)
        /\ lastOp' = Op("forward", inputs, <<>>, 0, 0)
        /\ calls' = calls + 1
        /\ run' = NoRun
        /\ forwarded' = forwarded \cup {ForwardRecord(inputs, fwd)}
        /\ UNCHANGED <<layers, weights, biases, neuronGradients, weightGradients,
                       learningRate, batchSize, currentBatchCount,
                       accWeightGradients, accBiasGradients, sinceReset, lastBatch,
                       dataset, app>>

\* the per-sample gradients of the train call that just ended, one per weight
\* and one per bias, and the learning rate in force during the call
SampleGradients(wg, ng, lr) == [w |-> wg, b |-> Tail(ng), lr |-> lr]

\* train(inputs, targets)
Train(inputs, targets) ==
    \E fwd \in {ForwardPass(weights, biases, layers, inputs)} :
    \E bp \in {Backprop(weights, biases, layers, fwd.a, fwd.z,
                        OutputStage(layers, fwd, targets, neuronGradients,
                                    weightGradients, accWeightGradients,
                                    accBiasGradients, weights),
                        Len(weights))} :
    \E up \in {BatchStep(weights, biases, bp.accW, bp.accB, currentBatchCount,
                         learningRate, batchSize)} :
    \E g \in {SampleGradients(bp.wg, bp.ng, learningRate)} :
        /\ calls < MaxCalls
        /\ activations' = fwd.a
        /\ preActivations' = fwd.z
        /\ neuronGradients' = bp.ng
        /\ weightGradients' = bp.wg
        /\ weights' = up.weights
        /\ biases' = up.biases
        /\ accWeightGradients' = up.accW
        /\ accBiasGradients' = up.accB
        /\ currentBatchCount' = up.count
        /\ ret' = TrainReturn(fwd, up, inputs)
        /\ lastOp' = Op("train", inputs, targets, 0, 0)
        /\ calls' = calls + 1
        /\ sinceReset' = IF up.applied
                         THEN NewBatch(up.weights, up.biases, 0)
                         ELSE [sinceReset EXCEPT !.grads = Append(@, g), !.discarded = 0]
        /\ lastBatch' = IF up.applied
                        THEN [sinceReset EXCEPT !.grads = Append(@, g), !.discarded = 0]
                        ELSE lastBatch
        /\ run' = IF currentBatchCount = 0
                  THEN [valid |-> TRUE, w0 |-> weights, b0 |-> biases,
                        grads |-> <<g>>]
                  ELSE IF run.valid
                       THEN [run EXCEPT !.grads = Append(run.grads, g)]
                       ELSE NoRun
        /\ forwarded' = IF up.applied THEN {}
                        ELSE {[f EXCEPT !.trained = TRUE] : f \in forwarded}
        /\ UNCHANGED <<layers, learningRate, batchSize, dataset, app>>

\* what updateConfig leaves when it keeps the batch
ConfigKept(lr) ==
    [learningRate |-> lr, batchSize |-> batchSize, count |-> currentBatchCount,
     accW |-> accWeightGradients, accB |-> accBiasGradients]

\* what updateConfig leaves when it starts a new batch of the given size
ConfigReset(lr, size) ==
    LET rs == ResetAccumulators(weights, biases)
    IN  [learningRate |-> lr, batchSize |-> size, count |-> rs.count,
         accW |-> rs.accW, accB |-> rs.accB]

\* Faulty variant: a new batch size resets the counter and keeps the accumulated sums
ConfigResultKeepsSums(lr, size) ==
    IF batchSize # size
    THEN [ConfigReset(lr, size) EXCEPT !.accW = accWeightGradients,
                                       !.accB = accBiasGradients]
    ELSE ConfigKept(lr)

\* Faulty variant: every call starts a new batch
ConfigResultAlwaysResets(lr, size) == ConfigReset(lr, size)

\* Faulty variant: the learning rate is replaced only together with the batch size
ConfigResultRateOnResize(lr, size) ==
    IF batchSize # size THEN ConfigReset(lr, size) ELSE ConfigKept(learningRate)

\* updateConfig(lr, size): the configuration, counter and accumulators it leaves
ConfigResult(lr, size) ==
    IF batchSize # size THEN ConfigReset(lr, size) ELSE ConfigKept(lr)

\* updateConfig(lr, size)
UpdateConfig(lr, size) ==
    \E cfg \in {ConfigResult(lr, size)} :
        /\ calls < MaxCalls
        /\ learningRate' = cfg.learningRate
        /\ batchSize' = cfg.batchSize
        /\ currentBatchCount' = cfg.count
        /\ accWeightGradients' = cfg.accW
        /\ accBiasGradients' = cfg.accB
        /\ ret' = <<>>
        /\ lastOp' = Op("updateConfig", <<>>, <<>>, lr, size)
        /\ calls' = calls + 1
        /\ sinceReset' = IF batchSize # size
                         THEN NewBatch(weights, biases, Len(sinceReset.grads))
                         ELSE [sinceReset EXCEPT !.discarded = 0]
        /\ run' = NoRun
        /\ UNCHANGED <<layers, weights, biases, activations, preActivations,
                       neuronGradients, weightGradients, lastBatch,
                       forwarded, dataset, app>>

\* Faulty variant: the snapshot stores zero activations in the engine when no
\* forward pass has run yet
GetVisualizationDataFillsActivations ==
    /\ calls < MaxCalls
    /\ ret' = VisualizationData
    /\ activations' = IF activations = <<>>
                      THEN Array([l \in 1..Len(layers) |-> Zeros(layers[l].neurons)])
                      ELSE activations
    /\ lastOp' = Op("getVisualizationData", <<>>, <<>>, 0, 0)
    /\ calls' = calls + 1
    /\ run' = NoRun
    /\ UNCHANGED <<layers, weights, biases, preActivations,
                   neuronGradients, weightGradients, learningRate, batchSize,
                   currentBatchCount, accWeightGradients, accBiasGradients,
                   sinceReset, lastBatch, forwarded, dataset, app>>

\* getVisualizationData()
GetVisualizationData ==
    /\ calls < MaxCalls
    /\ ret' = VisualizationData
    /\ lastOp' = Op("getVisualizationData", <<>>, <<>>, 0, 0)
    /\ calls' = calls + 1
    /\ run' = NoRun
    /\ UNCHANGED <<layers, weights, biases, activations, preActivations,
                   neuronGradients, weightGradients, learningRate, batchSize,
                   currentBatchCount, accWeightGradients, accBiasGradients,
                   sinceReset, lastBatch, forwarded, dataset, app>>

DoForward == \E s \in Samples : Forward(s.inputs)

DoTrain == \E s \in Samples : Train(s.inputs, s.target)

DoUpdateConfig == \E lr \in LearningRates, size \in BatchSizes : UpdateConfig(lr, size)

Next ==
    \/ DoForward
    \/ DoTrain
    \/ DoUpdateConfig
    \/ GetVisualizationData

Spec == Init /\ [][Next]_vars

\* the batch sizes no check of the constructor or of updateConfig keeps out
NonPositiveSizes == {-1, 0}

\* the batch sizes the engine accepts
AcceptedSizes == BatchSizes \cup NonPositiveSizes

\* new MiniNeuralNet(ls, lr, size) with any size it accepts
InitAnySize ==
    \E ls \in Topologies, lr \in LearningRates, size \in AcceptedSizes, seed \in Seeds :
        Construct(ls, lr, size, seed)

DoUpdateConfigAnySize ==
    \E lr \in LearningRates, size \in AcceptedSizes : UpdateConfig(lr, size)

\* train at a batch size other than 0; at batch size 0 the scaler 1 / 0 is
\* Infinity and the parameters leave the numbers of the model, the calls
\* are not followed there
DoTrainFinite == batchSize # 0 /\ DoTrain

NextAnySize ==
    \/ DoForward
    \/ DoTrainFinite
    \/ DoUpdateConfigAnySize
    \/ GetVisualizationData

\* the engine with callers that pass any batch size
SpecAnySize == InitAnySize /\ [][NextAnySize]_vars

\* forward(inputs) with more inputs than the input layer has neurons: the
\* forward state is replaced by the input alone, then layerWeights[k] is
\* undefined for the first extra input and reading layerWeights[k][j] throws
\* a TypeError
ForwardThrows(inputs) ==
    /\ calls < MaxCalls
    /\ Len(inputs) > layers[1].neurons
    /\ activations' = <<inputs>>
    /\ preActivations' = <<inputs>>
    /\ ret' = <<>>
    /\ lastOp' = Op("forward (TypeError)", inputs, <<>>, 0, 0)
    /\ calls' = calls + 1
    /\ run' = NoRun
    /\ UNCHANGED <<layers, weights, biases, neuronGradients, weightGradients,
                   learningRate, batchSize, currentBatchCount,
                   accWeightGradients, accBiasGradients, sinceReset, lastBatch,
                   forwarded, dataset, app>>

\* train(inputs, targets) with more inputs than the input layer has neurons:
\* its first statement, this.forward(inputs), throws
TrainThrows(inputs, targets) ==
    /\ calls < MaxCalls
    /\ Len(inputs) > layers[1].neurons
    /\ activations' = <<inputs>>
    /\ preActivations' = <<inputs>>
    /\ ret' = <<>>
    /\ lastOp' = Op("train (TypeError)", inputs, targets, 0, 0)
    /\ calls' = calls + 1
    /\ run' = NoRun
    /\ UNCHANGED <<layers, weights, biases, neuronGradients, weightGradients,
                   learningRate, batchSize, currentBatchCount,
                   accWeightGradients, accBiasGradients, sinceReset, lastBatch,
                   forwarded, dataset, app>>

\* input vectors of the width of the input layer, one shorter and one longer
AnyInputs == {s.inputs : s \in Samples} \cup {<<2>>, <<14, 2, 6>>}

\* target vectors of the width of the output layer and one longer
AnyTargets == {s.target : s \in Samples} \cup {<<Scale, 0>>}

\* forward with an input of any length; with a shorter input the loop over
\* currentActivations.length adds fewer products and the call returns
DoForwardAnyLength ==
    \E inputs \in AnyInputs :
        IF Len(inputs) > layers[1].neurons THEN ForwardThrows(inputs)
        ELSE Forward(inputs)

\* train with an input of the right length or longer and a target of the
\* right length or longer; the entries of a longer target past the output
\* layer are never read.  With a shorter input or target the gradients are
\* NaN (a product with undefined) and leave the numbers of the model: those
\* calls are not followed
DoTrainAnyLength ==
    \E inputs \in AnyInputs, targets \in AnyTargets :
        IF Len(inputs) > layers[1].neurons THEN TrainThrows(inputs, targets)
        ELSE Len(inputs) = layers[1].neurons /\ Train(inputs, targets)

NextAnyLength ==
    \/ DoForwardAnyLength
    \/ DoTrainAnyLength

\* the engine with callers that pass vectors of any length
SpecAnyLength == Init /\ [][NextAnyLength]_vars

\* generateData(type, count)
GenerateDataCall(type, count, seed) ==
    /\ dataset' = [GenerateData(type, count, seed) EXCEPT !.given = TRUE]
    /\ UNCHANGED <<engine, lastOp, ret, calls, sinceReset, lastBatch, run, forwarded, app>>

\* generateData(type): count takes its default
GenerateDataDefault(type, seed) ==
    /\ dataset' = [GenerateData(type, DefaultCount, seed) EXCEPT !.given = FALSE]
    /\ UNCHANGED <<engine, lastOp, ret, calls, sinceReset, lastBatch, run, forwarded, app>>

DoGenerateData ==
    \E type \in Selectors, count \in Counts, seed \in DataSeeds :
        GenerateDataCall(type, count, seed)

DoGenerateDataDefault ==
    \E type \in Selectors, seed \in DataSeeds : GenerateDataDefault(type, seed)

NextData ==
    \/ DoGenerateData
    \/ DoGenerateDataDefault

\* one engine as constructed, before any call of generateData
InitData ==
    Construct(<<Layer(2, "RELU"), Layer(2, "TANH"), Layer(1, "SIGMOID")>>,
              Scale \div 4, 1, 1)

\* the calls of generateData, which reads and writes nothing of the engine
SpecData == InitData /\ [][NextData]_vars

----------------------------------------------------------------------------
(* The application: App.tsx and Controls.tsx.  nnRef.current is the engine of
   the engine variables, dataRef.current is dataset.points, and app holds the
   React state, stepIndexRef.current and the history the properties need.  One
   action is one event with the renders and effects it causes. *)

\* the steps the application takes since a reset are followed up to this many
MaxSteps == 9

\* the changes of config since the mount are followed up to this many
MaxChanges == 1

\* a coordinate or label of a data point as the engine's number
ToEngine(v) == RoundDiv(v * Scale, DataScale)

\* const INITIAL_CONFIG
InitialConfig ==
    [learningRate |-> RoundDiv(Scale, 10),
     dataset      |-> "XOR",
     batchSize    |-> 1,
     layers       |-> <<Layer(2, "RELU"), Layer(3, "TANH"), Layer(1, "SIGMOID")>>]

\* the positions of the learning-rate slider that are followed
SliderRates == {RoundDiv(Scale, 10), Scale \div 4}

\* the options of the batch-size select
BatchOptions == {1, 2, 4, 8}

\* the draws of Math.random the application's generateData calls are followed
\* for; only the Quadrants branch draws
AppDataSeeds(type) == IF type = "QUADRANTS" THEN {0, 7} ELSE {0}

\* an engine as a value: the fields of a MiniNeuralNet
NewNet(ls, lr, size, seed) ==
    LET w  == InitialWeights(ls, seed)
        b  == InitialBiases(ls, seed)
        rs == ResetAccumulators(w, b)
    IN  [layers |-> ls, learningRate |-> lr, batchSize |-> size,
         weights |-> w, biases |-> b,
         activations |-> <<>>, preActivations |-> <<>>,
         neuronGradients |-> Array([l \in 1..Len(ls) |-> Zeros(ls[l].neurons)]),
         weightGradients |-> ZeroLikeWeights(w),
         accW |-> rs.accW, accB |-> rs.accB, count |-> rs.count]

\* the one element of a set of one element: The({F(v) : v \in {e}}) is F(e)
\* with e evaluated once
The(S) == CHOOSE v \in S : TRUE

\* nn.train(inputs, targets) on the engine e
TrainNet(e, inputs, targets) ==
    The({ The({ The({
        [layers |-> e.layers, learningRate |-> e.learningRate,
         batchSize |-> e.batchSize,
         weights |-> up.weights, biases |-> up.biases,
         activations |-> fwd.a, preActivations |-> fwd.z,
         neuronGradients |-> bp.ng, weightGradients |-> bp.wg,
         accW |-> up.accW, accB |-> up.accB, count |-> up.count]
      : up \in {BatchStep(e.weights, e.biases, bp.accW, bp.accB, e.count,
                          e.learningRate, e.batchSize)} })
      : bp \in {Backprop(e.weights, e.biases, e.layers, fwd.a, fwd.z,
                         OutputStage(e.layers, fwd, targets, e.neuronGradients,
                                     e.weightGradients, e.accW, e.accB, e.weights),
                         Len(e.weights))} })
      : fwd \in {ForwardPass(e.weights, e.biases, e.layers, inputs)} })

\* nn.updateConfig(lr, size) on the engine e
UpdateConfigNet(e, lr, size) ==
    IF e.batchSize # size
    THEN LET rs == ResetAccumulators(e.weights, e.biases)
         IN  [e EXCEPT !.learningRate = lr, !.batchSize = size,
                       !.count = rs.count, !.accW = rs.accW, !.accB = rs.accB]
    ELSE [e EXCEPT !.learningRate = lr]

\* nnRef.current
CurrentNet ==
    [layers |-> layers, learningRate |-> learningRate, batchSize |-> batchSize,
     weights |-> weights, biases |-> biases,
     activations |-> activations, preActivations |-> preActivations,
     neuronGradients |-> neuronGradients, weightGradients |-> weightGradients,
     accW |-> accWeightGradients, accB |-> accBiasGradients,
     count |-> currentBatchCount]

\* nnRef.current is e in the first state
NetIs(e) ==
    /\ layers = e.layers
    /\ learningRate = e.learningRate
    /\ batchSize = e.batchSize
    /\ weights = e.weights
    /\ biases = e.biases
    /\ activations = e.activations
    /\ preActivations = e.preActivations
    /\ neuronGradients = e.neuronGradients
    /\ weightGradients = e.weightGradients
    /\ accWeightGradients = e.accW
    /\ accBiasGradients = e.accB
    /\ currentBatchCount = e.count

\* nnRef.current is e in the next state
SetNet(e) ==
    /\ layers' = e.layers
    /\ learningRate' = e.learningRate
    /\ batchSize' = e.batchSize
    /\ weights' = e.weights
    /\ biases' = e.biases
    /\ activations' = e.activations
    /\ preActivations' = e.preActivations
    /\ neuronGradients' = e.neuronGradients
    /\ weightGradients' = e.weightGradients
    /\ accWeightGradients' = e.accW
    /\ accBiasGradients' = e.accB
    /\ currentBatchCount' = e.count

\* the statistics resetNetwork and useState set
FreshStats(size) ==
    [epoch |-> 0, loss |-> 0, accuracy |-> 0, currentInputIndex |-> 0,
     history |-> <<>>, batchProgress |-> 0, batchSize |-> size]

\* what the callbacks read and write: the two refs, the step index and the
\* statistics, with the indices presented since the last reset
World(nn, data, step, stats, presented) ==
    [nn |-> nn, data |-> data, step |-> step, stats |-> stats,
     presented |-> presented, latest |-> <<>>]

\* Faulty variant: the engine is constructed with the learning rate and batch
\* size of INITIAL_CONFIG, as the one of useRef is
ResetNetworkWithInitialRates(w, cfg, seed, dseed) ==
    [w EXCEPT !.nn = NewNet(cfg.layers, InitialConfig.learningRate,
                            InitialConfig.batchSize, seed),
              !.data = [GenerateData(cfg.dataset, DefaultCount, dseed)
                           EXCEPT !.given = FALSE],
              !.step = 0,
              !.stats = FreshStats(cfg.batchSize),
              !.presented = <<>>]

\* resetNetwork() of a render with config cfg, but for setIsPlaying(false)
ResetNetwork(w, cfg, seed, dseed) ==
    [w EXCEPT !.nn = NewNet(cfg.layers, cfg.learningRate, cfg.batchSize, seed),
              !.data = [GenerateData(cfg.dataset, DefaultCount, dseed)
                           EXCEPT !.given = FALSE],
              !.step = 0,
              !.stats = FreshStats(cfg.batchSize),
              !.presented = <<>>]

\* the Sync Params effect of a render with config cfg
SyncParams(w, cfg) ==
    [w EXCEPT !.nn = UpdateConfigNet(w.nn, cfg.learningRate, cfg.batchSize)]

\* Faulty variant: the step index is incremented before the point is taken
PerformStepAfterIncrement(w) ==
    LET index == (w.step + 1) % Len(w.data.points)
        row   == w.data.points[index + 1]
        step  == w.step + 1
    IN  The({ LET diff == ToEngine(row.target[1]) - Last(nn.activations)[1]
              IN  [w EXCEPT !.nn = nn,
                            !.step = step,
                            !.presented = Append(@, index),
                            !.latest = [epoch |-> step \div Len(w.data.points),
                                        loss |-> Mul(diff, diff),
                                        index |-> index,
                                        batchCount |-> nn.count]]
            : nn \in {TrainNet(w.nn,
                  Array([c \in 1..Len(row.inputs) |-> ToEngine(row.inputs[c])]),
                  Array([c \in 1..Len(row.target) |-> ToEngine(row.target[c])]))} })

\* performStep(): one train call on the point at stepIndex % data.length
PerformStep(w) ==
    LET index == w.step % Len(w.data.points)
        row   == w.data.points[index + 1]
        step  == w.step + 1
    IN  The({ LET diff == ToEngine(row.target[1]) - Last(nn.activations)[1]
              IN  [w EXCEPT !.nn = nn,
                            !.step = step,
                            !.presented = Append(@, index),
                            !.latest = [epoch |-> step \div Len(w.data.points),
                                        loss |-> Mul(diff, diff),
                                        index |-> index,
                                        batchCount |-> nn.count]]
            : nn \in {TrainNet(w.nn,
                  Array([c \in 1..Len(row.inputs) |-> ToEngine(row.inputs[c])]),
                  Array([c \in 1..Len(row.target) |-> ToEngine(row.target[c])]))} })

RECURSIVE PerformSteps(_, _)
\* for (let i = 0; i < n; i++) latestStats = performStep()
PerformSteps(w, n) ==
    IF n = 0 THEN w ELSE The({PerformSteps(next, n - 1) : next \in {PerformStep(w)}})

\* const stepsPerFrame
StepsPerFrame(size) == IF size > 1 THEN size ELSE 4

\* the history a frame leaves: an entry when the frame's last step presented
\* the point of index 0, the oldest entry dropped beyond fifty
FrameHistory(history, latest) ==
    IF latest.index = 0
    THEN LET pushed == Append(history, [epoch |-> latest.epoch, loss |-> latest.loss])
         IN  IF Len(pushed) > 50 THEN Tail(pushed) ELSE pushed
    ELSE history

\* the statistics a frame or a manual step sets from the latest step
StepStats(prev, latest, history, size) ==
    [prev EXCEPT !.epoch = latest.epoch,
                 !.loss = latest.loss,
                 !.currentInputIndex = latest.index,
                 !.history = history,
                 !.batchProgress = latest.batchCount,
                 !.batchSize = size]

\* gameLoop() of a render that is playing with batch size `size`
GameLoop(w, size) ==
    The({ [after EXCEPT !.stats = StepStats(w.stats, after.latest,
                                            FrameHistory(w.stats.history, after.latest),
                                            size)]
          : after \in {PerformSteps(w, StepsPerFrame(size))} })

RECURSIVE GameLoops(_, _, _)
\* n frames in a row
GameLoops(w, size, n) ==
    IF n = 0 THEN w ELSE The({GameLoops(next, size, n - 1) : next \in {GameLoop(w, size)}})

\* handleManualStep(), but for setIsPlaying(false)
ManualStep(w, size) ==
    The({ [after EXCEPT !.stats = StepStats(w.stats, after.latest,
                                            w.stats.history, size)]
          : after \in {PerformStep(w)} })

\* the refs and statistics of the current state
CurrentWorld == World(CurrentNet, dataset, app.stepIndex, app.stats, app.presented)

\* the calls made on the engine directly, which the application does not make
histories == <<lastOp, ret, calls, sinceReset, lastBatch, run, forwarded>>

\* the state of the application: the React state, stepIndexRef.current, and of
\* the past: the indices presented since the last reset, whether every step
\* since then was a frame's of one uninterrupted playback, the event that came
\* last, the engines it constructed and the changes of config so far
AppState(w, cfg, playing, event, built, fastOnly, changes) ==
    [mounted   |-> TRUE,
     config    |-> cfg,
     isPlaying |-> playing,
     speedMode |-> "fast",
     stats     |-> w.stats,
     stepIndex |-> w.step,
     presented |-> w.presented,
     fastOnly  |-> fastOnly,
     lastEvent |-> event,
     built     |-> built,
     changes   |-> changes]

\* the event leaves the refs and statistics of w
Commit(w, cfg, playing, event, built, fastOnly, changes) ==
    /\ w.step <= MaxSteps
    /\ SetNet(w.nn)
    /\ dataset' = w.data
    /\ app' = AppState(w, cfg, playing, event, built, fastOnly, changes)
    /\ UNCHANGED histories

\* one more change of config
Changed == IF app.changes < MaxChanges THEN app.changes + 1 ELSE app.changes

\* the mount: useState and useRef with INITIAL_CONFIG, then the Initial Load
\* and Sync Params effects; the loop effect finds isPlaying false
Mount(seed0, seed1) ==
    \E w0 \in {World(NewNet(InitialConfig.layers, InitialConfig.learningRate,
                            InitialConfig.batchSize, seed0),
                     [GenerateData(InitialConfig.dataset, DefaultCount, 0)
                          EXCEPT !.given = FALSE],
                     0, FreshStats(1), <<>>)} :
    \E reset \in {ResetNetwork(w0, InitialConfig, seed1, 0)} :
    \E w1 \in {SyncParams(reset, InitialConfig)} :
        /\ NetIs(w1.nn)
        /\ dataset = w1.data
        /\ app = AppState(w1, InitialConfig, FALSE, "mount", 2, TRUE, 0)
        /\ lastOp = Op("construct", <<>>, <<>>, w1.nn.learningRate, w1.nn.batchSize)
        /\ ret = <<>>
        /\ calls = 0
        /\ sinceReset = NewBatch(w1.nn.weights, w1.nn.biases, 0)
        /\ lastBatch = NewBatch(w1.nn.weights, w1.nn.biases, 0)
        /\ run = NoRun
        /\ forwarded = {}

InitApp == \E seed0, seed1 \in Seeds : Mount(seed0, seed1)

\* the Fast button: setSpeedMode('fast'); setIsPlaying(!isPlaying).  The loop
\* effect of the next render calls gameLoop() when playing, and cancels the
\* pending frame when not
ClickFast ==
    IF app.isPlaying
    THEN \E w \in {CurrentWorld} :
            Commit(w, app.config, FALSE, "fast", 0, FALSE, app.changes)
    ELSE \E w0 \in {CurrentWorld} :
         \E w \in {GameLoop(w0, app.config.batchSize)} :
            Commit(w, app.config, TRUE, "fast", 0, app.fastOnly, app.changes)

\* the callback of requestAnimationFrame: gameLoop() of the playing render
AnimationFrame ==
    /\ app.isPlaying
    /\ \E w0 \in {CurrentWorld} :
       \E w \in {GameLoop(w0, app.config.batchSize)} :
          Commit(w, app.config, TRUE, "frame", 0, app.fastOnly, app.changes)

\* the Step button: handleManualStep()
ClickStep ==
    \E w0 \in {CurrentWorld} :
    \E w \in {ManualStep(w0, app.config.batchSize)} :
        Commit(w, app.config, FALSE, "step", 0, FALSE, app.changes)

\* the Reset button: resetNetwork() of the current render
ClickReset ==
    \E w0 \in {CurrentWorld} :
    \E w \in {ResetNetwork(w0, app.config, seed, dseed) :
                 seed \in Seeds, dseed \in AppDataSeeds(app.config.dataset)} :
        Commit(w, app.config, FALSE, "reset", 1, TRUE, app.changes)

\* the frames that run after the effects of a change of learning rate or batch
\* size and before the render that stops the playback: the one the loop effect
\* starts when gameLoop has changed, and the pending frame if it comes first
FramesBeforeStop(cfg) ==
    IF app.isPlaying
    THEN {(IF cfg.batchSize # app.config.batchSize THEN 1 ELSE 0) + pending :
              pending \in {0, 1}}
    ELSE {0}

\* setConfig(cfg) alone, of the learning-rate slider and the batch-size
\* select: the next render has a new resetNetwork, so the Initial Load effect
\* runs it, then the Sync Params effect runs
SetConfig(cfg, event) ==
    \E w0 \in {CurrentWorld} :
    \E w1 \in {ResetNetwork(w0, cfg, seed, dseed) :
                  seed \in Seeds, dseed \in AppDataSeeds(cfg.dataset)} :
    \E w2 \in {SyncParams(w1, cfg)} :
    \E frames \in FramesBeforeStop(cfg) :
    \E w3 \in {GameLoops(w2, cfg.batchSize, frames)} :
        Commit(w3, cfg, FALSE, event, 1, TRUE, Changed)

\* Faulty variant: the Initial Load effect does not run again
SetConfigAndResetOnce(cfg, event) ==
    \E w0 \in {CurrentWorld} :
    \E w1 \in {ResetNetwork(w0, app.config, seedA, dseedA) :
                  seedA \in Seeds, dseedA \in AppDataSeeds(app.config.dataset)} :
        Commit(w1, cfg, FALSE, event, 1, TRUE, Changed)

\* setConfig(cfg); onReset(): resetNetwork() of the current render, with the
\* config of before, then the Initial Load effect of the next render
SetConfigAndReset(cfg, event) ==
    \E w0 \in {CurrentWorld} :
    \E w2 \in {ResetNetwork(w1, cfg, seedB, dseedB) :
                  w1 \in {ResetNetwork(w0, app.config, seedA, dseedA) :
                             seedA \in Seeds, dseedA \in AppDataSeeds(app.config.dataset)},
                  seedB \in Seeds, dseedB \in AppDataSeeds(cfg.dataset)} :
        Commit(w2, cfg, FALSE, event, 2, TRUE, Changed)

\* the learning-rate slider
ChangeLearningRate(lr) ==
    /\ lr # app.config.learningRate
    /\ SetConfig([app.config EXCEPT !.learningRate = lr], "learningRate")

\* the batch-size select
ChangeBatchSize(size) ==
    /\ size # app.config.batchSize
    /\ SetConfig([app.config EXCEPT !.batchSize = size], "batchSize")

\* the dataset select
ChangeDataset(type) ==
    /\ type # app.config.dataset
    /\ SetConfigAndReset([app.config EXCEPT !.dataset = type], "dataset")

Max(a, b) == IF a > b THEN a ELSE b

Min(a, b) == IF a < b THEN a ELSE b

\* Faulty variant: the neuron count is not clamped
LayersChangedUnclamped(ls, idx, neurons) ==
    [ls EXCEPT ![idx] = [@ EXCEPT !.neurons = neurons]]

\* the layers handleLayerChange(idx, neurons) sets
LayersChanged(ls, idx, neurons) ==
    [ls EXCEPT ![idx] = [@ EXCEPT !.neurons = Max(1, Min(8, neurons))]]

\* the layers addLayer() sets
LayersAdded(ls) ==
    SubSeq(ls, 1, Len(ls) - 1) \o <<Layer(4, "TANH")>> \o <<Last(ls)>>

\* the layers removeLayer() sets
LayersRemoved(ls) ==
    SubSeq(ls, 1, Len(ls) - 2) \o <<Last(ls)>>

\* the layers the hidden-activation select sets
LayersActivated(ls, kind) ==
    Array([i \in 1..Len(ls) |->
              IF i > 1 /\ i < Len(ls) THEN [ls[i] EXCEPT !.activation = kind]
              ELSE ls[i]])

\* the minus and plus buttons of a hidden layer: handleLayerChange(idx,
\* layer.neurons - 1) and handleLayerChange(idx, layer.neurons + 1)
HandleLayerChange(idx, step) ==
    /\ idx > 1
    /\ idx < Len(app.config.layers)
    /\ SetConfigAndReset(
          [app.config EXCEPT !.layers =
              LayersChanged(@, idx, app.config.layers[idx].neurons + step)],
          "handleLayerChange")

\* the Add Layer button
AddLayer ==
    SetConfigAndReset([app.config EXCEPT !.layers = LayersAdded(@)], "addLayer")

\* the Remove Layer button
RemoveLayer ==
    /\ Len(app.config.layers) > 2
    /\ SetConfigAndReset([app.config EXCEPT !.layers = LayersRemoved(@)], "removeLayer")

\* the hidden-activation select, which shows the activation of layers[1]
ChangeActivation(kind) ==
    /\ kind # app.config.layers[2].activation
    /\ SetConfigAndReset([app.config EXCEPT !.layers = LayersActivated(@, kind)],
                         "activation")

\* no more changes of config than are followed
WithinChanges == app.changes < MaxChanges

DoChangeLearningRate == WithinChanges /\ \E lr \in SliderRates : ChangeLearningRate(lr)

DoChangeBatchSize == WithinChanges /\ \E size \in BatchOptions : ChangeBatchSize(size)

DoChangeDataset == WithinChanges /\ \E type \in DatasetType : ChangeDataset(type)

DoHandleLayerChange ==
    WithinChanges /\ \E idx \in 1..Len(app.config.layers), step \in {-1, 1} :
                        HandleLayerChange(idx, step)

DoAddLayer == WithinChanges /\ AddLayer

DoRemoveLayer == WithinChanges /\ RemoveLayer

DoChangeActivation == WithinChanges /\ \E kind \in ActivationType : ChangeActivation(kind)

NextApp ==
    \/ ClickFast
    \/ AnimationFrame
    \/ ClickStep
    \/ ClickReset
    \/ DoChangeLearningRate
    \/ DoChangeBatchSize
    \/ DoChangeDataset
    \/ DoHandleLayerChange
    \/ DoAddLayer
    \/ DoRemoveLayer
    \/ DoChangeActivation

\* the application from its mount on
SpecApp == InitApp /\ [][NextApp]_vars

\* the layer lists are followed up to this many layers
MaxLayers == 4

DoAddLayerBounded == Len(app.config.layers) < MaxLayers /\ AddLayer

DoHandleLayerChangeAny ==
    \E idx \in 1..Len(app.config.layers), step \in {-1, 1} : HandleLayerChange(idx, step)

NextControls ==
    \/ DoHandleLayerChangeAny
    \/ DoAddLayerBounded
    \/ RemoveLayer
    \/ ClickReset

\* the application under the buttons that edit the layer list and the Reset
\* button alone, as often as the user likes
SpecControls == InitApp /\ [][NextControls]_vars

----------------------------------------------------------------------------
(* Properties *)

\* the sum over the recorded samples of the gradient of weight [i][j][k]
SumW(grads, i, j, k) ==
    Sum(Array([n \in 1..Len(grads) |-> grads[n].w[i][j][k]]), Len(grads))

\* the sum over the recorded samples of the gradient of bias [i][k]
SumB(grads, i, k) ==
    Sum(Array([n \in 1..Len(grads) |-> grads[n].b[i][k]]), Len(grads))

AccumulatorsZero ==
    /\ \A i \in 1..Len(weights) : \A j \in 1..Len(weights[i]) :
         \A k \in 1..Len(weights[i][j]) : accWeightGradients[i][j][k] = 0
    /\ \A i \in 1..Len(biases) : \A k \in 1..Len(biases[i]) :
         accBiasGradients[i][k] = 0

AccumulatorsNonZero ==
    \E i \in 1..Len(weights) : \E j \in 1..Len(weights[i]) :
        \E k \in 1..Len(weights[i][j]) : accWeightGradients[i][j][k] # 0

\* C1: after construction and after every call, with positive batch sizes, the
\* batch counter is at least 0 and below the batch size; it never rests at the
\* batch size.
C1_CounterBelowBatchSize ==
    /\ 0 <= currentBatchCount
    /\ currentBatchCount < batchSize

\* C1 witness: a train call has just completed a batch of two or more samples,
\* so the counter reached the batch size inside the call and rests at 0.
C1_Witness ==
    /\ lastOp.name = "train"
    /\ batchSize >= 2
    /\ Len(lastBatch.grads) = batchSize
    /\ currentBatchCount = 0

\* C2: in a run of consecutive train calls that began with the counter at 0,
\* the parameters stay as they were during the first B-1 calls; after the
\* B-th every weight and bias is its starting value minus
\* learningRate * (sum of its B per-sample gradients) / B, and the
\* accumulators and the counter are zero.
C2_BatchUpdate ==
    run.valid =>
        /\ Len(run.grads) <= batchSize
        /\ Len(run.grads) < batchSize =>
              /\ weights = run.w0
              /\ biases = run.b0
        /\ Len(run.grads) = batchSize =>
              /\ \A i \in 1..Len(weights) : \A j \in 1..Len(weights[i]) :
                   \A k \in 1..Len(weights[i][j]) :
                     weights[i][j][k] = run.w0[i][j][k]
                        - Mul(learningRate, Mul(SumW(run.grads, i, j, k), Recip(batchSize)))
              /\ \A i \in 1..Len(biases) : \A k \in 1..Len(biases[i]) :
                     biases[i][k] = run.b0[i][k]
                        - Mul(learningRate, Mul(SumB(run.grads, i, k), Recip(batchSize)))
              /\ AccumulatorsZero
              /\ currentBatchCount = 0

\* C2 witness: B >= 2 consecutive train calls have completed a batch and the
\* update moved a weight.
C2_Witness ==
    /\ run.valid
    /\ batchSize >= 2
    /\ Len(run.grads) = batchSize
    /\ weights # run.w0

\* C3: updateConfig with a batch size other than the current one, after k < B
\* train calls of the batch, leaves every weight and bias as it was before
\* those calls, zeroes the accumulators and the counter and installs the
\* requested batch size; the train call that follows completes a batch
\* exactly when one sample fills the requested size.
C3_BatchSizeChangeDiscards ==
    [][ /\ (lastOp'.name = "updateConfig" /\ lastOp'.batchSize # batchSize) =>
            /\ Len(sinceReset.grads) = currentBatchCount
            /\ currentBatchCount < batchSize
            /\ weights' = sinceReset.w0
            /\ biases' = sinceReset.b0
            /\ AccumulatorsZero'
            /\ currentBatchCount' = 0
            /\ batchSize' = lastOp'.batchSize
        /\ (lastOp.name = "updateConfig" /\ lastOp'.name = "train") =>
            /\ (currentBatchCount + 1 >= lastOp.batchSize) =>
                  /\ currentBatchCount' = 0
                  /\ Len(lastBatch'.grads) = currentBatchCount + 1
            /\ (currentBatchCount + 1 < lastOp.batchSize) =>
                  /\ currentBatchCount' = currentBatchCount + 1
                  /\ weights' = weights
                  /\ biases' = biases
      ]_vars

\* C3 witness: updateConfig has just changed the batch size and dropped a
\* partial batch of at least one sample with a non-zero gradient sum.
C3_Witness ==
    /\ lastOp.name = "updateConfig"
    /\ sinceReset.discarded >= 1
    /\ batchSize = lastOp.batchSize
    /\ AccumulatorsZero
    /\ \E i \in 1..Len(weights) : \E j \in 1..Len(weights[i]) :
         \E k \in 1..Len(weights[i][j]) : weightGradients[i][j][k] # 0

\* C4: every weight accumulator and bias accumulator is the sum of that
\* parameter's per-sample gradients over the currentBatchCount train calls
\* made since the last parameter update or batch-size change.
C4_AccumulatorsAreRunningSums ==
    /\ Len(sinceReset.grads) = currentBatchCount
    /\ \A i \in 1..Len(weights) : \A j \in 1..Len(weights[i]) :
         \A k \in 1..Len(weights[i][j]) :
           accWeightGradients[i][j][k] = SumW(sinceReset.grads, i, j, k)
    /\ \A i \in 1..Len(biases) : \A k \in 1..Len(biases[i]) :
           accBiasGradients[i][k] = SumB(sinceReset.grads, i, k)

\* C4 witness: two samples with different non-zero gradients are accumulated.
C4_Witness ==
    /\ currentBatchCount = 2
    /\ sinceReset.grads[1].w # sinceReset.grads[2].w
    /\ AccumulatorsNonZero

\* C5: updateConfig with the current batch size (whatever the learning rate),
\* forward and getVisualizationData leave the accumulators and the counter
\* unchanged, and a train call that does not complete the batch adds one to
\* the counter.
C5_AccumulatorsKeptUnlessUpdateOrResize ==
    [][ /\ ( \/ lastOp'.name = "updateConfig" /\ lastOp'.batchSize = batchSize
             \/ lastOp'.name = "forward"
             \/ lastOp'.name = "getVisualizationData" ) =>
            UNCHANGED <<accWeightGradients, accBiasGradients, currentBatchCount>>
        /\ (lastOp'.name = "train" /\ currentBatchCount + 1 < batchSize) =>
            currentBatchCount' = currentBatchCount + 1
      ]_vars

\* C5 witness: updateConfig was called in the middle of a batch with the
\* current batch size and another learning rate, and the accumulated sums are
\* still there.
C5_Witness ==
    /\ lastOp.name = "updateConfig"
    /\ currentBatchCount >= 1
    /\ AccumulatorsNonZero
    /\ \E n \in 1..Len(sinceReset.grads) : sinceReset.grads[n].lr # learningRate

\* C6: updateConfig always installs the requested learning rate, and the
\* parameter update that completes a batch scales the whole averaged batch
\* gradient, the samples accumulated under an earlier rate included, by the
\* learning rate in force at that call.
C6_LearningRateReplaced ==
    [][ /\ lastOp'.name = "updateConfig" => learningRate' = lastOp'.learningRate
        /\ (lastOp'.name = "train" /\ currentBatchCount + 1 = batchSize) =>
            /\ Len(lastBatch'.grads) = batchSize
            /\ \A i \in 1..Len(weights) : \A j \in 1..Len(weights[i]) :
                 \A k \in 1..Len(weights[i][j]) :
                   weights'[i][j][k] = lastBatch'.w0[i][j][k]
                      - Mul(learningRate,
                            Mul(SumW(lastBatch'.grads, i, j, k), Recip(batchSize)))
            /\ \A i \in 1..Len(biases) : \A k \in 1..Len(biases[i]) :
                   biases'[i][k] = lastBatch'.b0[i][k]
                      - Mul(learningRate,
                            Mul(SumB(lastBatch'.grads, i, k), Recip(batchSize)))
      ]_vars

\* C6 witness: a batch whose first sample was accumulated under another
\* learning rate has just been applied, and the rate of that first sample
\* would have given a different weight.
C6_Witness ==
    /\ lastOp.name = "train"
    /\ currentBatchCount = 0
    /\ Len(lastBatch.grads) >= 2
    /\ lastBatch.grads[1].lr # learningRate
    /\ \E i \in 1..Len(weights) : \E j \in 1..Len(weights[i]) :
         \E k \in 1..Len(weights[i][j]) :
           weights[i][j][k] # lastBatch.w0[i][j][k]
              - Mul(lastBatch.grads[1].lr,
                    Mul(SumW(lastBatch.grads, i, j, k), Recip(batchSize)))

\* C7: a weight or bias changes only in a train call that brings the batch
\* counter up to the batch size; forward, updateConfig, getVisualizationData
\* and a train call that does not complete a batch leave them all unchanged.
C7_ParametersChangeOnlyOnUpdate ==
    [][ (weights' # weights \/ biases' # biases) =>
            /\ lastOp'.name = "train"
            /\ currentBatchCount + 1 = batchSize
      ]_vars

\* C7 witness: a train call has added a non-zero gradient to the accumulators
\* without completing the batch, and the parameters are those the batch
\* started with.
C7_Witness ==
    /\ lastOp.name = "train"
    /\ currentBatchCount >= 1
    /\ AccumulatorsNonZero
    /\ weights = sinceReset.w0
    /\ biases = sinceReset.b0

\* C8: train returns what forward would return for the same input on the
\* parameters as they were before the call, also when the call applies an
\* update, and the forward state it leaves is that of this pass.
C8_TrainReturnsPreUpdatePrediction ==
    [][ lastOp'.name = "train" =>
            \E f \in {ForwardPass(weights, biases, layers, lastOp'.inputs)} :
                /\ ret' = Last(f.a)
                /\ activations' = f.a
                /\ preActivations' = f.z
      ]_vars

\* C8 witness: a train call has applied an update after which forward on the
\* same input gives another output than the call returned.
C8_Witness ==
    /\ lastOp.name = "train"
    /\ currentBatchCount = 0
    /\ weights # lastBatch.w0
    /\ Last(ForwardPass(weights, biases, layers, lastOp.inputs).a) # ret

\* C9: after a train call the per-sample gradients are those of the sample
\* just processed on the parameters the call started with: each weight
\* gradient is the delta of its target neuron times the activation of its
\* source neuron, the deltas follow from this sample's forward pass, and no
\* gradient of an earlier call enters.
C9_PerSampleGradients ==
    [][ lastOp'.name = "train" =>
            /\ activations' = ForwardPass(weights, biases, layers, lastOp'.inputs).a
            /\ \A i \in 1..Len(weights) : \A j \in 1..Len(weights[i]) :
                 \A k \in 1..Len(weights[i][j]) :
                   weightGradients'[i][j][k] =
                      Mul(neuronGradients'[i + 1][k], activations'[i][j])
            /\ \A n \in 1..layers[Len(layers)].neurons :
                   neuronGradients'[Len(layers)][n] =
                      Mul(activations'[Len(layers)][n] - lastOp'.targets[n],
                          ActivationPrime(layers[Len(layers)].activation,
                                          preActivations'[Len(layers)][n],
                                          activations'[Len(layers)][n]))
            /\ \A l \in 2..(Len(layers) - 1) : \A j \in 1..layers[l].neurons :
                   neuronGradients'[l][j] =
                      Mul(Sum(Array([k \in 1..layers[l + 1].neurons |->
                                 Mul(neuronGradients'[l + 1][k], weights[l][j][k])]),
                              layers[l + 1].neurons),
                          ActivationPrime(layers[l].activation,
                                          preActivations'[l][j], activations'[l][j]))
      ]_vars

\* C9 witness: the second train call of a batch has left weight gradients that
\* are non-zero and differ from those of the first.
C9_Witness ==
    /\ lastOp.name = "train"
    /\ currentBatchCount = 2
    /\ sinceReset.grads[2].w = weightGradients
    /\ sinceReset.grads[1].w # weightGradients
    /\ sinceReset.grads[1].w # ZeroLikeWeights(weights)
    /\ weightGradients # ZeroLikeWeights(weights)

\* C10: forward changes only the activations and pre-activations: weights,
\* biases, per-sample gradients, accumulators, batch counter, learning rate
\* and batch size stay, and the input vector, which the forward state holds as
\* its first layer, is as it was passed.
C10_ForwardFrame ==
    [][ lastOp'.name = "forward" =>
            /\ UNCHANGED <<layers, weights, biases, neuronGradients,
                           weightGradients, accWeightGradients, accBiasGradients,
                           currentBatchCount, learningRate, batchSize>>
            /\ activations'[1] = lastOp'.inputs
            /\ preActivations'[1] = lastOp'.inputs
      ]_vars

\* C10 witness: forward was called in the middle of a batch, after a train
\* call on another input left non-zero gradients and accumulators.
C10_Witness ==
    /\ lastOp.name = "forward"
    /\ currentBatchCount >= 1
    /\ AccumulatorsNonZero
    /\ weightGradients # ZeroLikeWeights(weights)
    /\ \E l \in 1..Len(layers) : \E n \in 1..layers[l].neurons :
         neuronGradients[l][n] # 0

\* the number of neurons of the network
NeuronCount == Sum(Array([l \in 1..Len(layers) |-> layers[l].neurons]), Len(layers))

\* the number of connections of the network
ConnectionCount ==
    Sum(Array([i \in 1..Len(layers) - 1 |->
                   layers[i].neurons * layers[i + 1].neurons]), Len(layers) - 1)

\* C11: getVisualizationData can be called in every state the engine reaches
\* (before the first forward pass and in the middle of a batch included): the
\* call completes, returns one record per neuron and one per connection, and
\* leaves every field of the engine as it was.
C11_VisualizationIsReadOnly ==
    /\ [](calls < MaxCalls => ENABLED GetVisualizationData)
    /\ [][lastOp'.name = "getVisualizationData" =>
             /\ UNCHANGED engine
             /\ Len(ret'.neurons) = NeuronCount
             /\ Len(ret'.connections) = ConnectionCount]_vars

\* a snapshot was taken before any forward pass ran: every record shows
\* activation 0 and the engine still has no forward state
C11_Witness ==
    /\ lastOp.name = "getVisualizationData"
    /\ activations = <<>>
    /\ preActivations = <<>>
    /\ Len(ret.neurons) = NeuronCount
    /\ \A n \in 1..Len(ret.neurons) : ret.neurons[n].activation = 0

\* C12: a forward call returns the same value and leaves the same forward
\* state as every earlier forward call with the same input made since the
\* last parameter update, whatever forward, getVisualizationData, updateConfig
\* and train calls that completed no batch came between them.
C12_ForwardRepeats ==
    [][lastOp'.name = "forward" =>
          \A f \in forwarded :
              f.inputs = lastOp'.inputs =>
                  /\ ret' = f.out
                  /\ activations' = f.a
                  /\ preActivations' = f.z]_vars

\* forward was called twice with the same input, and between the two calls
\* a train call that completed no batch left its own forward state
C12_Witness ==
    /\ lastOp.name = "forward"
    /\ currentBatchCount > 0
    /\ \E f \in forwarded : f.trained /\ f.inputs = lastOp.inputs

\* m holds, for every pair of consecutive layers, one row per neuron of the
\* first and in each row one entry per neuron of the second
WeightShaped(m) ==
    /\ Len(m) = Len(layers) - 1
    /\ \A i \in 1..Len(m) :
          /\ Len(m[i]) = layers[i].neurons
          /\ \A j \in 1..Len(m[i]) : Len(m[i][j]) = layers[i + 1].neurons
          /\ Sum(Array([j \in 1..Len(m[i]) |-> Len(m[i][j])]), Len(m[i]))
                = layers[i].neurons * layers[i + 1].neurons

\* v holds, for every layer but the input layer, one entry per neuron
BiasShaped(v) ==
    /\ Len(v) = Len(layers) - 1
    /\ \A i \in 1..Len(v) : Len(v[i]) = layers[i + 1].neurons

\* C13: after construction and after every call, for every layer list of two
\* layers or more, the weights between two consecutive layers are
\* neurons(i-1) * neurons(i) entries, the biases of a layer are neurons(i)
\* entries, and both accumulators have the shapes of the weights and biases.
C13_Shapes ==
    /\ Len(layers) >= 2
    /\ WeightShaped(weights)
    /\ BiasShaped(biases)
    /\ WeightShaped(accWeightGradients)
    /\ BiasShaped(accBiasGradients)

\* a batch was completed on a network whose consecutive layers differ in
\* width: parameters were rewritten and the accumulators rebuilt
C13_Witness ==
    /\ lastOp.name = "train"
    /\ currentBatchCount = 0
    /\ Len(layers) = 3
    /\ layers[2].neurons # layers[3].neurons
    /\ weights # lastBatch.w0

\* the derivative factor of the mixed convention: from z for ReLU, from a for
\* Sigmoid and Tanh
MixedDerivative(kind, z, a) ==
    IF kind = "RELU" THEN (IF z > 0 THEN Scale ELSE 0)
    ELSE IF kind = "SIGMOID" THEN Mul(a, Scale - a)
    ELSE Scale - Mul(a, a)

\* the error that reaches neuron n of layer l: output minus target in the
\* output layer, the weighted sum of the next layer's deltas in a hidden layer
ErrorAt(ls, w, acts, deltas, targets, l, n) ==
    IF l = Len(ls) THEN acts[l][n] - targets[n]
    ELSE Sum(Array([k \in 1..ls[l + 1].neurons |-> Mul(deltas[l + 1][k], w[l][n][k])]),
             ls[l + 1].neurons)

\* C14: after a train call the error term of every neuron of the output layer
\* and of every hidden layer is the error that reaches it times the derivative
\* factor of the mixed convention: 1 or 0 by the sign of z for ReLU (the error
\* term is 0 when z <= 0), a*(1-a) for Sigmoid and 1-a*a for Tanh, with a the
\* activation.
C14_MixedDerivativeConvention ==
    [][ lastOp'.name = "train" =>
            \A l \in 2..Len(layers) : \A n \in 1..layers[l].neurons :
                /\ neuronGradients'[l][n] =
                      Mul(ErrorAt(layers, weights, activations', neuronGradients',
                                  lastOp'.targets, l, n),
                          MixedDerivative(layers[l].activation,
                                          preActivations'[l][n], activations'[l][n]))
                /\ (layers[l].activation = "RELU" /\ preActivations'[l][n] <= 0)
                      => neuronGradients'[l][n] = 0
      ]_vars

\* a train call left a hidden ReLU neuron with z <= 0 and error term 0 although
\* a non-zero error reached it, under an output layer whose error term is not 0
C14_Witness ==
    /\ lastOp.name = "train"
    /\ currentBatchCount > 0
    /\ \E l \in 2..(Len(layers) - 1) : \E n \in 1..layers[l].neurons :
          /\ layers[l].activation = "RELU"
          /\ preActivations[l][n] <= 0
          /\ neuronGradients[l][n] = 0
          /\ ErrorAt(layers, weights, activations, neuronGradients,
                     lastOp.targets, l, n) # 0

\* the data point (x/10, y/10) -> [t]
Literal(x, y, t) == DataPoint(Tenths(x), Tenths(y), t * DataScale)

\* C15: every call generateData(XOR, 8) returns the eight points
\* (0.1,0.1)->[0], (0.9,0.1)->[1], (0.1,0.9)->[1], (0.9,0.9)->[0],
\* (0.2,0.2)->[0], (0.8,0.2)->[1], (0.2,0.8)->[1], (0.8,0.8)->[0], in that
\* order.
C15_XorPoints ==
    (dataset.kind = "XOR" /\ dataset.count = 8) =>
        /\ ~dataset.threw
        /\ dataset.points = << Literal(1, 1, 0), Literal(9, 1, 1), Literal(1, 9, 1),
                               Literal(9, 9, 0), Literal(2, 2, 0), Literal(8, 2, 1),
                               Literal(2, 8, 1), Literal(8, 8, 0) >>

\* generateData(XOR, 8) was called and returned eight points
C15_Witness ==
    /\ dataset.kind = "XOR"
    /\ dataset.given
    /\ dataset.count = 8
    /\ Len(dataset.points) = 8

\* the square of the radius of data point p
RadiusSquared(p) == p.inputs[1] * p.inputs[1] + p.inputs[2] * p.inputs[2]

\* p lies at radius r, to the resolution of the coordinates
OnRing(p, r) ==
    /\ (r - 1) * (r - 1) <= RadiusSquared(p)
    /\ RadiusSquared(p) <= (r + 1) * (r + 1)

\* p lies on the ray at e eighths of a turn, to the resolution of the
\* coordinates
OnRay(p, e) ==
    /\ Abs(p.inputs[1] * SinEighth[(e % 8) + 1] - p.inputs[2] * CosEighth[(e % 8) + 1])
          <= 2 * DataScale
    /\ p.inputs[1] * CosEighth[(e % 8) + 1] + p.inputs[2] * SinEighth[(e % 8) + 1] > 0

\* C16: for QUADRANTS and CIRCLE, generateData(kind, count) returns count
\* points (8 when count is omitted), and for CIRCLE point n of the count
\* points lies at n/count of a full turn (stated for the counts that divide 8,
\* whose angles are eighths of a turn).
C16_CountPoints ==
    dataset.kind \in {"QUADRANTS", "CIRCLE"} =>
        /\ Len(dataset.points) = dataset.count
        /\ ~dataset.given => Len(dataset.points) = 8
        /\ (dataset.kind = "CIRCLE" /\ 8 % dataset.count = 0) =>
              \A n \in 1..Len(dataset.points) :
                  OnRay(dataset.points[n], (n - 1) * (8 \div dataset.count))

\* C17: every point of generateData(CIRCLE, n) has target 1 if and only if its
\* radius is below 0.5; the points at even index (from 0) lie at radius 0.3
\* and have target 1, those at odd index lie at radius 0.9 and have target 0.
C17_CircleLabels ==
    dataset.kind = "CIRCLE" =>
        \A n \in 1..Len(dataset.points) :
            LET p == dataset.points[n]
            IN  /\ p.target \in {<<0>>, <<DataScale>>}
                /\ p.target = <<DataScale>> <=>
                      4 * RadiusSquared(p) < DataScale * DataScale
                /\ (n - 1) % 2 = 0 => (OnRing(p, Tenths(3)) /\ p.target = <<DataScale>>)
                /\ (n - 1) % 2 = 1 => (OnRing(p, Tenths(9)) /\ p.target = <<0>>)

\* generateData(CIRCLE, n) returned points of both rings, one of them off
\* both axes
C17_Witness ==
    /\ dataset.kind = "CIRCLE"
    /\ dataset.given
    /\ Len(dataset.points) >= 2
    /\ dataset.points[1].target = <<DataScale>>
    /\ dataset.points[2].target = <<0>>
    /\ dataset.points[2].inputs[1] # 0
    /\ dataset.points[2].inputs[2] # 0

\* C18: every point of generateData(QUADRANTS, n), whatever the random draws,
\* has target 1 when x > 0 and 0 otherwise, has |x| in [0.5, 0.9), and has
\* x < 0 at even index (from 0) and x > 0 at odd index.
C18_QuadrantLabels ==
    dataset.kind = "QUADRANTS" =>
        \A n \in 1..Len(dataset.points) :
            LET p == dataset.points[n]
                x == p.inputs[1]
            IN  /\ p.target = (IF x > 0 THEN <<DataScale>> ELSE <<0>>)
                /\ Tenths(5) <= Abs(x)
                /\ Abs(x) < Tenths(9)
                /\ (n - 1) % 2 = 0 => x < 0
                /\ (n - 1) % 2 = 1 => x > 0

\* generateData(QUADRANTS, n) returned a point with the smallest magnitude of
\* x and a point with a magnitude close to 0.9, and a point labelled 1 with
\* y < 0
C18_Witness ==
    /\ dataset.kind = "QUADRANTS"
    /\ dataset.given
    /\ \E n \in 1..Len(dataset.points) : Abs(dataset.points[n].inputs[1]) = Tenths(5)
    /\ \E n \in 1..Len(dataset.points) :
          Abs(dataset.points[n].inputs[1]) > Tenths(9) - 20
    /\ \E n \in 1..Len(dataset.points) :
          /\ dataset.points[n].target = <<DataScale>>
          /\ dataset.points[n].inputs[2] < 0

\* C19: a call of generateData with a selector that is none of XOR, QUADRANTS
\* and CIRCLE fails and returns no points.
C19_UnknownSelectorFails ==
    (dataset # NoData /\ dataset.kind \notin DatasetType) =>
        /\ dataset.threw
        /\ dataset.points = <<>>

\* C20: the engine is never in a state with batchSize <= 0 (construction and
\* updateConfig with such a size fail), and no train call applies a parameter
\* update scaled by 1/batchSize with batchSize <= 0.
C20_BatchSizePositive ==
    /\ batchSize > 0
    /\ ~(lastOp.name = "train" /\ batchSize <= 0 /\ currentBatchCount = 0)

\* a train call at batch size -1 completed a batch at once and moved the
\* weights by the gradient scaled by -1
C20_Witness ==
    /\ lastOp.name = "train"
    /\ batchSize < 0
    /\ currentBatchCount = 0
    /\ weights # lastBatch.w0

\* the call did not pass an input of the width of the input layer and, for
\* train, a target of the width of the output layer
LengthMismatch(op) ==
    /\ op.name \in {"forward", "train", "forward (TypeError)", "train (TypeError)"}
    /\ \/ Len(op.inputs) # layers[1].neurons
       \/ /\ op.name \in {"train", "train (TypeError)"}
          /\ Len(op.targets) # layers[Len(layers)].neurons

\* C21: a forward or train call with an input whose length is not the width of
\* the input layer, or a train call with a target whose length is not the
\* width of the output layer, fails, returns nothing and leaves every field of
\* the engine as it was.
C21_LengthMismatchFails ==
    [][ LengthMismatch(lastOp') =>
            /\ lastOp'.name \in {"forward (TypeError)", "train (TypeError)"}
            /\ ret' = <<>>
            /\ UNCHANGED engine ]_vars

\* forward returned a value for an input shorter than the input layer
C21_Witness ==
    /\ lastOp.name = "forward"
    /\ Len(lastOp.inputs) < layers[1].neurons
    /\ Len(ret) = layers[Len(layers)].neurons
    /\ Len(activations) = Len(layers)

\* the positions in the snapshot of the records of neuron n of layer l
NeuronRecordsOf(snapshot, l, n) ==
    {p \in 1..Len(snapshot.neurons) :
        /\ snapshot.neurons[p].layerIndex = l - 1
        /\ snapshot.neurons[p].neuronIndex = n - 1}

\* the positions in the snapshot of the records of the connections from
\* the neuron with id source to the neuron with id target
ConnectionRecordsOf(snapshot, source, target) ==
    {p \in 1..Len(snapshot.connections) :
        /\ snapshot.connections[p].sourceId = source
        /\ snapshot.connections[p].targetId = target}

\* the ids of all records of the snapshot, in order
SnapshotIds(snapshot) ==
    [p \in 1..Len(snapshot.neurons) |-> snapshot.neurons[p].id]
        \o [p \in 1..Len(snapshot.connections) |-> snapshot.connections[p].id]

\* C22: the snapshot getVisualizationData returns holds one neuron record per
\* neuron and one connection record per weight, no two records with the same
\* id; the record of the connection from neuron j of layer i to neuron k of
\* layer i+1 carries weights[i][j][k] and its per-sample gradient; the record
\* of a neuron carries its bias (0 in the input layer), activation,
\* pre-activation and delta, as the engine holds them (0 where the engine
\* holds none yet).
C22_SnapshotContents ==
    lastOp.name = "getVisualizationData" =>
        /\ Len(ret.neurons) = NeuronCount
        /\ Len(ret.connections) = ConnectionCount
        /\ \A p, q \in 1..Len(SnapshotIds(ret)) :
               p # q => SnapshotIds(ret)[p] # SnapshotIds(ret)[q]
        /\ \A l \in 1..Len(layers) : \A n \in 1..layers[l].neurons :
               /\ Cardinality(NeuronRecordsOf(ret, l, n)) = 1
               /\ \A p \in NeuronRecordsOf(ret, l, n) :
                    /\ ret.neurons[p].bias = (IF l = 1 THEN 0 ELSE biases[l - 1][n])
                    /\ ret.neurons[p].activation =
                          (IF activations = <<>> THEN 0 ELSE activations[l][n])
                    /\ ret.neurons[p].preActivation =
                          (IF preActivations = <<>> THEN 0 ELSE preActivations[l][n])
                    /\ ret.neurons[p].gradient = neuronGradients[l][n]
        /\ \A i \in 1..(Len(layers) - 1) : \A j \in 1..layers[i].neurons :
             \A k \in 1..layers[i + 1].neurons :
               \E a \in NeuronRecordsOf(ret, i, j), b \in NeuronRecordsOf(ret, i + 1, k) :
                 LET found == ConnectionRecordsOf(ret, ret.neurons[a].id, ret.neurons[b].id)
                 IN  /\ Cardinality(found) = 1
                     /\ \A p \in found :
                          /\ ret.connections[p].weight = weights[i][j][k]
                          /\ ret.connections[p].gradient = weightGradients[i][j][k]

\* a snapshot was taken after the second train call of a batch, when the
\* per-sample gradients differ from the accumulated ones
C22_Witness ==
    /\ lastOp.name = "getVisualizationData"
    /\ currentBatchCount = 2
    /\ activations # <<>>
    /\ weightGradients # accWeightGradients
    /\ \E p \in 1..Len(ret.connections) : ret.connections[p].gradient # 0
    /\ \E p \in 1..Len(ret.neurons) : ret.neurons[p].bias # 0

\* C28: the error terms of the input layer are zero in every state: after
\* construction, after every train call and after every other call, for every
\* layer list and sample.
C28_InputLayerGradientsZero ==
    /\ Len(neuronGradients) = Len(layers)
    /\ Len(neuronGradients[1]) = layers[1].neurons
    /\ \A j \in 1..layers[1].neurons : neuronGradients[1][j] = 0

\* a train call with non-zero inputs left non-zero error terms in the layer
\* above the input layer, behind non-zero weights
C28_Witness ==
    /\ lastOp.name = "train"
    /\ \A j \in 1..layers[1].neurons : activations[1][j] # 0
    /\ \E k \in 1..layers[2].neurons :
          /\ neuronGradients[2][k] # 0
          /\ \E j \in 1..layers[1].neurons : weights[1][j][k] # 0

\* C29: in a train call that completes a batch and changes the weights, every
\* error term is the error that reaches the neuron through the weights of
\* before the call times the derivative factor, every weight gradient is the
\* error term above times the activation below, and the activations are those
\* of the weights of before the call.
C29_GradientsFromOldWeights ==
    [][ (lastOp'.name = "train" /\ weights' # weights) =>
            /\ activations' =
                  ForwardPass(weights, biases, layers, lastOp'.inputs).a
            /\ \A l \in 2..(Len(layers) - 1) : \A n \in 1..layers[l].neurons :
                  neuronGradients'[l][n] =
                      Mul(ErrorAt(layers, weights, activations', neuronGradients',
                                  lastOp'.targets, l, n),
                          MixedDerivative(layers[l].activation,
                                          preActivations'[l][n], activations'[l][n]))
            /\ \A i \in 1..Len(weights) : \A j \in 1..Len(weights[i]) :
                  \A k \in 1..Len(weights[i][j]) :
                     weightGradients'[i][j][k] =
                         Mul(neuronGradients'[i + 1][k], activations'[i][j])
      ]_vars

\* a train call completed a batch and changed the weights, and the error term
\* it left in a hidden neuron is not the one the changed weights would give
C29_Witness ==
    /\ lastOp.name = "train"
    /\ currentBatchCount = 0
    /\ weights # lastBatch.w0
    /\ \E l \in 2..(Len(layers) - 1) : \E n \in 1..layers[l].neurons :
          /\ neuronGradients[l][n] =
                Mul(ErrorAt(layers, lastBatch.w0, activations, neuronGradients,
                            lastOp.targets, l, n),
                    MixedDerivative(layers[l].activation,
                                    preActivations[l][n], activations[l][n]))
          /\ neuronGradients[l][n] #
                Mul(ErrorAt(layers, weights, activations, neuronGradients,
                            lastOp.targets, l, n),
                    MixedDerivative(layers[l].activation,
                                    preActivations[l][n], activations[l][n]))

\* the step changes nothing of config but the learning rate or the batch size
HyperparametersChange ==
    /\ app'.config # app.config
    /\ app'.config.layers = app.config.layers
    /\ app'.config.dataset = app.config.dataset

\* C23: when only the learning rate or the batch size of config changes, the
\* engine in use stays the same instance and takes the two values, its weights
\* and biases stay as learned, and playback goes on if it was on.
C23_HyperparametersKeepEngine ==
    [][ HyperparametersChange =>
            /\ app'.built = 0
            /\ weights' = weights
            /\ biases' = biases
            /\ learningRate' = app'.config.learningRate
            /\ batchSize' = app'.config.batchSize
            /\ app'.isPlaying = app.isPlaying
      ]_vars

\* a change of the learning rate has left an engine as constructed, with the
\* step index at 0
C23_Witness ==
    /\ app.lastEvent = "learningRate"
    /\ app.built = 1
    /\ app.stepIndex = 0
    /\ activations = <<>>
    /\ \E seed \in Seeds : weights = InitialWeights(layers, seed)

\* the events that edit the layer list
ArchitectureEdits == {"handleLayerChange", "addLayer", "removeLayer", "activation"}

\* the engine in use is as constructed from ls, lr and size
FreshEngine(ls, lr, size) ==
    \E seed \in Seeds : CurrentNet = NewNet(ls, lr, size, seed)

\* C24: after an edit of the layer list through the controls, with its state
\* updates and effects, the engine in use is as constructed from the edited
\* layer list, the step index is 0 and playback is off.
C24_EditRebuildsEngine ==
    app.lastEvent \in ArchitectureEdits =>
        /\ FreshEngine(app.config.layers, app.config.learningRate, app.config.batchSize)
        /\ currentBatchCount = 0
        /\ app.stepIndex = 0
        /\ ~app.isPlaying
        /\ app.built >= 1

\* the hidden layer of the initial list was given a fourth neuron: the engine
\* in use has four rows of weights out of it, and two engines were constructed
C24_Witness ==
    /\ app.lastEvent = "handleLayerChange"
    /\ layers[2].neurons = 4
    /\ Len(weights[2]) = 4
    /\ app.built = 2

\* C25: in a playback that was not interrupted since the last reset, the loss
\* history is not empty once the first epoch is complete.
C25_HistoryAfterFirstEpoch ==
    (app.fastOnly /\ app.stepIndex >= Len(dataset.points)) =>
        app.stats.history # <<>>

\* a frame has appended an entry to the loss history
C25_Witness ==
    /\ app.lastEvent = "frame"
    /\ app.stats.history # <<>>

\* C26: the indices presented since the last reset are 0, 1, 2, ... modulo
\* the length of the dataset, as many as the step index; the input of the
\* engine's last train call is the point before the step index; the epoch
\* shown is floor(stepIndex / length); a manual step adds one to the step
\* index; and no event that constructs no engine lowers the epoch.
C26_StepsInOrder ==
    [][ /\ app'.presented =
              [n \in 1..app'.stepIndex |-> (n - 1) % Len(dataset'.points)]
        /\ app'.stepIndex > 0 =>
              activations'[1] = LET n   == (app'.stepIndex - 1) % Len(dataset'.points)
                                    row == dataset'.points[n + 1]
                                IN  Array([c \in 1..Len(row.inputs) |->
                                              ToEngine(row.inputs[c])])
        /\ app'.stats.epoch = app'.stepIndex \div Len(dataset'.points)
        /\ app'.lastEvent = "step" => app'.stepIndex = app.stepIndex + 1
        /\ app'.built = 0 => /\ app'.stats.epoch >= app.stats.epoch
                             /\ app'.stepIndex >= app.stepIndex
      ]_vars

\* a manual step after a frame has started the second epoch
C26_Witness ==
    /\ app.lastEvent = "step"
    /\ app.stepIndex = Len(dataset.points) + 1
    /\ app.stats.epoch = 1
    /\ app.stats.currentInputIndex = 0
    /\ ~app.fastOnly
    /\ app.config.batchSize = 4

\* C27: under the edits of the layer list the list has at least two layers,
\* its first and last layers are those of the initial config, and every
\* hidden layer has from 1 to 8 neurons.
C27_LayerListBounds ==
    /\ Len(app.config.layers) >= 2
    /\ app.config.layers[1] = InitialConfig.layers[1]
    /\ Last(app.config.layers) = Last(InitialConfig.layers)
    /\ \A i \in 2..(Len(app.config.layers) - 1) :
          app.config.layers[i].neurons \in 1..8
    /\ layers = app.config.layers

\* one hidden layer stands at 8 neurons and another at 1
C27_Witness ==
    /\ app.lastEvent = "handleLayerChange"
    /\ \E i, j \in 2..(Len(app.config.layers) - 1) :
          /\ app.config.layers[i].neurons = 8
          /\ app.config.layers[j].neurons = 1

\* C30: after every event, with its effects, the engine in use has the
\* learning rate and the batch size of config, and the batch progress shown
\* is at least 0 and less than the batch size of config.
C30_EngineMatchesConfig ==
    /\ learningRate = app.config.learningRate
    /\ batchSize = app.config.batchSize
    /\ app.stats.batchProgress >= 0
    /\ app.stats.batchProgress < app.config.batchSize

\* three manual steps into a batch of four, after the change of the batch size
C30_Witness ==
    /\ app.lastEvent = "step"
    /\ app.changes = 1
    /\ app.config.batchSize = 4
    /\ app.stats.batchProgress = 3

====
